---------------------------- MODULE Spec2Model ----------------------------
(***************************************************************************)
(* hivexml (xml/hivexml.c): the visitor callbacks that turn a depth-first  *)
(* walk of a registry hive into an XML document, written through a         *)
(* forward-only xmlTextWriter.                                             *)
(*                                                                         *)
(* The writer is modelled by its stack of open elements; what it has       *)
(* written is observed as a stream of tokens (start, attr, text, end).     *)
(* `out` holds the tokens written by the operation in progress: the        *)
(* dispatcher empties it when it takes the callback's return value and     *)
(* moves on, so the observed window is always one whole callback.          *)
(*                                                                         *)
(* A C string is a sequence of bytes followed by a NUL the sequence does   *)
(* not hold; a buffer may hold NULs of its own, and then the C string ends *)
(* at the first of them.                                                   *)
(***************************************************************************)
EXTENDS Integers, Sequences, FiniteSets, TLC

VARIABLES
    pc,       \* where main() is: "start", "visit", "visited", or how it ended
    stack,    \* the writer's open elements, outermost first
    out,      \* tokens written by the operation in progress
    errno,    \* the C library's error indicator
    call,     \* the callback (or function) last invoked, its arguments and result
    path,     \* hivex_visit: the nodes entered and not yet left
    seen,     \* hivex_visit: how many nodes and values it has dispatched
    visit,    \* hivex_visit: "idle", "called" (a callback returned), or its result
    roots,    \* number of node elements written with root="1"
    locale    \* whether isprint() accepts bytes above 127 in the execution locale

vars == <<pc, stack, out, errno, call, path, seen, visit, roots, locale>>

---------------------------------------------------------------------------
(* Bounds of the model.                                                    *)

MaxLen == 3          \* longest byte buffer given to the classifier
MaxPayload == 5      \* longest value payload (the byte-run threshold is 4)
MaxItems == 2        \* longest multi-string list
MaxDepth == 2        \* deepest nesting of nodes
MaxNodes == 2        \* nodes visited in one run
MaxValues == 2       \* values visited in one run
MaxTick == 12        \* largest tick count given to the timestamp converter
MaxWrites == 12      \* a writer failure strikes at one of the first MaxWrites calls

---------------------------------------------------------------------------
(* Bytes and C strings.                                                    *)

\* The bytes the model draws buffers from: NUL, a control character, a
\* printable ASCII letter, and a byte above 127.
Bytes == {0, 1, 65, 200}

\* A null pointer where a C string is expected.
NULLPTR == <<-1>>

RECURSIVE BufsOfLen(_)
BufsOfLen(n) ==
    IF n = 0 THEN {<<>>}
    ELSE {Append(b, c) : b \in BufsOfLen(n - 1), c \in Bytes}

Bufs(n) == UNION {BufsOfLen(k) : k \in 0..n}

\* strlen: the number of bytes before the first NUL (src: strlen(data)).
RECURSIVE strlen(_)
strlen(data) ==
    IF data = <<>> \/ Head(data) = 0 THEN 0 ELSE 1 + strlen(Tail(data))

CStr(data) == SubSeq(data, 1, strlen(data))

\* isprint in the execution locale: the ASCII printable range, and for a
\* byte above 127 (a negative char handed to isprint) whatever the locale
\* table of the build holds.
isprint(c) ==
    IF c >= 32 /\ c <= 126 THEN TRUE
    ELSE IF c >= 128 THEN locale
    ELSE FALSE

---------------------------------------------------------------------------
(* Conversions done by the writer and by snprintf.                         *)

B64Char(i) ==
    IF i < 26 THEN 65 + i
    ELSE IF i < 52 THEN 97 + (i - 26)
    ELSE IF i < 62 THEN 48 + (i - 52)
    ELSE IF i = 62 THEN 43 ELSE 47

\* xmlTextWriterWriteBase64 over the bytes of b.
RECURSIVE Base64(_)
Base64(b) ==
    IF Len(b) = 0 THEN <<>>
    ELSE IF Len(b) = 1 THEN
        <<B64Char(b[1] \div 4), B64Char((b[1] % 4) * 16), 61, 61>>
    ELSE IF Len(b) = 2 THEN
        <<B64Char(b[1] \div 4),
          B64Char((b[1] % 4) * 16 + b[2] \div 16),
          B64Char((b[2] % 16) * 4), 61>>
    ELSE
        <<B64Char(b[1] \div 4),
          B64Char((b[1] % 4) * 16 + b[2] \div 16),
          B64Char((b[2] % 16) * 4 + b[3] \div 64),
          B64Char(b[3] % 64)>> \o Base64(SubSeq(b, 4, Len(b)))

\* snprintf (buf, ..., "%d", n): the decimal digits of n as characters.
RECURSIVE Digits(_)
Digits(n) ==
    IF n < 10 THEN <<48 + n>> ELSE Append(Digits(n \div 10), 48 + (n % 10))

FormatD(n) == IF n < 0 THEN <<45>> \o Digits(0 - n) ELSE Digits(n)

---------------------------------------------------------------------------
(* The writer (libxml2's xmlTextWriter) and the XML_CHECK macro.           *)
(*                                                                         *)
(* A function of the program is an operator on the machine m: the writer's *)
(* stack, the tokens written, errno, whether the process still runs (st),  *)
(* the count n of writer calls made by the operation in progress, and the  *)
(* call wfail at which the writer reports an error (0: at none).           *)

Tok(k, tag, name, form, lit, bytes) ==
    [k |-> k, tag |-> tag, name |-> name, form |-> form,
     lit |-> lit, bytes |-> bytes]

Machine(wfail, lib) ==
    [stack |-> stack, out |-> <<>>,
     errno |-> IF lib # 0 THEN lib ELSE errno,
     st |-> "run", n |-> 0, wfail |-> wfail, ret |-> 0, roots |-> roots,
     timebuf |-> "NULL"]

\* XML_CHECK (proc, args): a writer call that returns -1 prints a message
\* and exits the process with EXIT_FAILURE.
XML_CHECK(m, ok, after) ==
    IF m.st # "run" THEN m
    ELSE IF m.n + 1 = m.wfail \/ ~ok
         THEN [m EXCEPT !.n = @ + 1, !.st = "exit_failure"]
         ELSE [after EXCEPT !.n = m.n + 1]

xmlTextWriterStartElement(m, tag) ==
    XML_CHECK(m, TRUE,
        [m EXCEPT !.stack = Append(@, tag),
                  !.out = Append(@, Tok("start", tag, "", "", "", <<>>))])

\* The writer refuses to end an element when none is open.
xmlTextWriterEndElement(m) ==
    XML_CHECK(m, m.stack # <<>>,
        [m EXCEPT !.stack = SubSeq(@, 1, Len(@) - 1),
                  !.out = Append(@, Tok("end", m.stack[Len(m.stack)], "", "", "", <<>>))])

\* An attribute whose value is a literal of the program ("1", "base64", a type).
WriteLiteralAttribute(m, name, lit) ==
    XML_CHECK(m, TRUE,
        [m EXCEPT !.out = Append(@, Tok("attr", "", name, "lit", lit, <<>>))])

\* An attribute whose value is the C string at data, written as it is.
xmlTextWriterWriteAttribute(m, name, data) ==
    XML_CHECK(m, TRUE,
        [m EXCEPT !.out = Append(@, Tok("attr", "", name, "raw", "", CStr(data)))])

\* xmlTextWriterWriteFormatAttribute (writer, name, "%" PRIi32, v)
xmlTextWriterWriteFormatAttribute(m, name, v) ==
    XML_CHECK(m, TRUE,
        [m EXCEPT !.out = Append(@, Tok("attr", "", name, "dec", "", FormatD(v)))])

xmlTextWriterStartAttribute(m, name) ==
    XML_CHECK(m, TRUE,
        [m EXCEPT !.out = Append(@, Tok("attr", "", name, "open", "", <<>>))])

\* Appends the base64 text of data[start .. start+len-1] to the open attribute.
xmlTextWriterWriteBase64(m, data, len) ==
    XML_CHECK(m, m.out # <<>> /\ m.out[Len(m.out)].form \in {"open", "b64"},
        [m EXCEPT !.out[Len(m.out)].form = "b64",
                  !.out[Len(m.out)].bytes = @ \o Base64(SubSeq(data, 1, len))])

xmlTextWriterEndAttribute(m) ==
    XML_CHECK(m, m.out # <<>> /\ m.out[Len(m.out)].k = "attr", m)

xmlTextWriterWriteString(m, text) ==
    XML_CHECK(m, TRUE,
        [m EXCEPT !.out = Append(@, Tok("text", "", "", "lit", text, <<>>))])

\* xmlTextWriterEndDocument closes whatever is still open and flushes.
xmlTextWriterEndDocument(m) ==
    XML_CHECK(m, TRUE, [m EXCEPT !.stack = <<>>])

---------------------------------------------------------------------------
(* The timestamp converter.                                                *)
(*                                                                         *)
(* tenv names the library call of the conversion that fails, if any:       *)
(* "gmtime" (it returns NULL for a time it cannot convert), "malloc",      *)
(* "strftime" (it returns 0), or "ok".  A gmtime that fails sets errno     *)
(* (EOVERFLOW), and nothing in the program clears it.  The digits of the   *)
(* timestamp are not modelled: the text is the token "timestamp".          *)

TimeEnvs == {"ok", "gmtime", "malloc", "strftime"}

filetime_to_8601(m, windows_ticks, tenv) ==
    IF m.st # "run" THEN m
    ELSE IF windows_ticks = 0 THEN [m EXCEPT !.timebuf = "NULL"]
    ELSE IF tenv = "gmtime" THEN [m EXCEPT !.timebuf = "NULL", !.errno = 75]
    ELSE IF tenv = "malloc" THEN [m EXCEPT !.st = "exit_failure"]
    ELSE IF tenv = "strftime" THEN [m EXCEPT !.st = "exit_failure"]
    ELSE [m EXCEPT !.timebuf = "timestamp"]

\* if (last_modified >= 0) { timebuf = filetime_to_8601 (...); if (timebuf) <mtime>..</mtime> }
WriteMtime(m, last_modified, tenv) ==
    IF last_modified >= 0
    THEN LET m1 == filetime_to_8601(m, last_modified, tenv)
         IN  IF m1.st = "run" /\ m1.timebuf # "NULL"
             THEN xmlTextWriterEndElement(
                    xmlTextWriterWriteString(
                      xmlTextWriterStartElement(m1, "mtime"), m1.timebuf))
             ELSE m1
    ELSE m

---------------------------------------------------------------------------
(* The encoding safety classifier and the attribute writer built on it.    *)

\* The loop of encoding_recommendation without its break: the result is that
\* of the last isprint call.
RECURSIVE ScanPrintable_no_break(_, _, _)
ScanPrintable_no_break(data, i, is_printable) ==
    IF i > strlen(data) THEN is_printable
    ELSE ScanPrintable_no_break(data, i + 1, isprint(data[i]))

\* The loop of encoding_recommendation from index i on, is_printable being
\* the result of the last isprint call (0 before the first).
RECURSIVE ScanPrintable(_, _, _)
ScanPrintable(data, i, is_printable) ==
    IF i > strlen(data) THEN is_printable
    ELSE IF ~isprint(data[i]) THEN FALSE
    ELSE ScanPrintable(data, i + 1, TRUE)

\* encoding_recommendation that looks at the whole buffer, past the NUL.
encoding_recommendation_whole(data) ==
    IF data # <<>> /\ (\A i \in 1..Len(data) : isprint(data[i]))
    THEN "none" ELSE "base64"

encoding_recommendation(data) ==
    IF ScanPrintable(data, 1, FALSE) THEN "none" ELSE "base64"

safe_print_string_attribute(m, attr_name, attr_encoding, attr_data) ==
    IF m.st # "run" THEN m
    ELSE IF attr_data # NULLPTR
    THEN LET encoding_to_use == encoding_recommendation(attr_data)
         IN  IF encoding_to_use = "none"
             THEN [xmlTextWriterWriteAttribute(m, attr_name, attr_data)
                     EXCEPT !.ret = 0]
             ELSE [xmlTextWriterEndAttribute(
                     xmlTextWriterWriteBase64(
                       xmlTextWriterStartAttribute(
                         WriteLiteralAttribute(m, attr_encoding, "base64"),
                         attr_name),
                       attr_data, strlen(attr_data)))
                     EXCEPT !.ret = 0]
    ELSE [m EXCEPT !.ret = -1]

---------------------------------------------------------------------------
(* What the program asks of the hive library (hivex).  q names the query   *)
(* that reports an error while serving the callback in progress: "q1" the  *)
(* structure-length query, "q2" the data-cell query, "ok" none.  A query   *)
(* that fails sets errno; one that succeeds leaves errno as it finds it.   *)

Queries == {"ok", "q1", "q2"}

\* The offset of the root node's record.
hivex_root == 4128

\* The record of a node is its fixed part and its name.
hivex_node_struct_length(e, q, name) ==
    IF q = "q1" THEN [errno |-> 22, ret |-> 0]
    ELSE [errno |-> e, ret |-> 80 + strlen(name)]

\* The record of a value is its fixed part and its key.
hivex_value_struct_length(e, q, key) ==
    IF q = "q1" THEN [errno |-> 22, ret |-> 0]
    ELSE [errno |-> e, ret |-> 24 + strlen(key)]

\* A payload of more than 4 bytes lies in a data cell of its own; a shorter
\* one is stored inline in the value's record and has no cell.
hivex_value_data_cell_offset(e, q, value, len) ==
    IF q = "q2" THEN [errno |-> 14, ret |-> 0, len |-> 0]
    ELSE IF len > 4 THEN [errno |-> e, ret |-> value + 64, len |-> len]
    ELSE [errno |-> e, ret |-> 0, len |-> 0]

---------------------------------------------------------------------------
(* The byte-run recorder.                                                  *)

\* <byte_run file_offset=".." len=".."/>
WriteByteRun(m, offset, length) ==
    xmlTextWriterEndElement(
      xmlTextWriterWriteAttribute(
        xmlTextWriterWriteAttribute(
          xmlTextWriterStartElement(m, "byte_run"),
          "file_offset", FormatD(offset)),
        "len", FormatD(length)))

\* node_byte_runs with the two numbers written under each other's name.
node_byte_runs_swapped(m, node, q, name) ==
    IF m.st # "run" THEN m
    ELSE
    LET r == hivex_node_struct_length(m.errno, q, name)
        m1 == [m EXCEPT !.errno = r.errno]
    IN  IF m1.errno # 0 THEN [m1 EXCEPT !.ret = -1]
        ELSE [xmlTextWriterEndElement(
                WriteByteRun(xmlTextWriterStartElement(m1, "byte_runs"),
                             r.ret, node))
                EXCEPT !.ret = 0]

node_byte_runs(m, node, q, name) ==
    IF m.st # "run" THEN m
    ELSE
    LET r == hivex_node_struct_length(m.errno, q, name)
        m1 == [m EXCEPT !.errno = r.errno]
    IN  IF m1.errno # 0 THEN [m1 EXCEPT !.ret = -1]
        ELSE [xmlTextWriterEndElement(
                WriteByteRun(xmlTextWriterStartElement(m1, "byte_runs"),
                             node, r.ret))
                EXCEPT !.ret = 0]

\* value_byte_runs without the test of the data cell's length.
value_byte_runs_unconditional(m, value, q, key, len) ==
    IF m.st # "run" THEN m
    ELSE
    LET r1 == hivex_value_struct_length(m.errno, q, key)
        m1 == [m EXCEPT !.errno = r1.errno]
        r2 == hivex_value_data_cell_offset(m1.errno, q, value, len)
        m2 == [m1 EXCEPT !.errno = r2.errno]
        first == WriteByteRun(xmlTextWriterStartElement(m2, "byte_runs"),
                              value, r1.ret)
    IN  IF m1.errno # 0 THEN [m1 EXCEPT !.ret = -1]
        ELSE IF m2.errno # 0 THEN [m2 EXCEPT !.ret = -1]
        ELSE [xmlTextWriterEndElement(WriteByteRun(first, r2.ret, r2.len))
                EXCEPT !.ret = 0]

\* value_byte_runs that opens the byte_runs element before it asks for the
\* data cell.
value_byte_runs_open_first(m, value, q, key, len) ==
    IF m.st # "run" THEN m
    ELSE
    LET r1 == hivex_value_struct_length(m.errno, q, key)
        m1 == [m EXCEPT !.errno = r1.errno]
        opened == xmlTextWriterStartElement(m1, "byte_runs")
        r2 == hivex_value_data_cell_offset(opened.errno, q, value, len)
        m2 == [opened EXCEPT !.errno = r2.errno]
        first == WriteByteRun(m2, value, r1.ret)
    IN  IF m1.errno # 0 THEN [m1 EXCEPT !.ret = -1]
        ELSE IF opened.st # "run" THEN opened
        ELSE IF m2.errno # 0 THEN [m2 EXCEPT !.ret = -1]
        ELSE [xmlTextWriterEndElement(
                IF r2.len > 4
                THEN WriteByteRun(first, r2.ret, r2.len)
                ELSE first)
                EXCEPT !.ret = 0]

value_byte_runs(m, value, q, key, len) ==
    IF m.st # "run" THEN m
    ELSE
    LET r1 == hivex_value_struct_length(m.errno, q, key)
        m1 == [m EXCEPT !.errno = r1.errno]
        r2 == hivex_value_data_cell_offset(m1.errno, q, value, len)
        m2 == [m1 EXCEPT !.errno = r2.errno]
        value_data_cell_length == r2.len
        first == WriteByteRun(xmlTextWriterStartElement(m2, "byte_runs"),
                              value, r1.ret)
    IN  IF m1.errno # 0 THEN [m1 EXCEPT !.ret = -1]
        ELSE IF m2.errno # 0 THEN [m2 EXCEPT !.ret = -1]
        ELSE [xmlTextWriterEndElement(
                IF value_data_cell_length > 4
                THEN WriteByteRun(first, r2.ret, value_data_cell_length)
                ELSE first)
                EXCEPT !.ret = 0]

---------------------------------------------------------------------------
(* The node serializer.                                                    *)

\* node_start that marks every node as the root.
node_start_always_root(m, node, name, last_modified, tenv, q) ==
    LET m1 == xmlTextWriterStartElement(m, "node")
        m2 == safe_print_string_attribute(m1, "name", "name_encoding", name)
        w  == WriteLiteralAttribute(m2, "root", "1")
        m3 == IF w.st = "run" THEN [w EXCEPT !.roots = @ + 1] ELSE w
        m4 == WriteMtime(m3, last_modified, tenv)
    IN  node_byte_runs(m4, node, q, name)

node_start(m, node, name, last_modified, tenv, q) ==
    LET m1 == xmlTextWriterStartElement(m, "node")
        m2 == safe_print_string_attribute(m1, "name", "name_encoding", name)
        m3 == IF node = hivex_root
              THEN LET w == WriteLiteralAttribute(m2, "root", "1")
                   IN  IF w.st = "run" THEN [w EXCEPT !.roots = @ + 1] ELSE w
              ELSE m2
        m4 == WriteMtime(m3, last_modified, tenv)
    IN  node_byte_runs(m4, node, q, name)

node_end(m) ==
    [xmlTextWriterEndElement(m) EXCEPT !.ret = 0]

---------------------------------------------------------------------------
(* The value serializer.                                                   *)

HiveTypes ==
    {"hive_t_none", "hive_t_string", "hive_t_expand_string", "hive_t_binary",
     "hive_t_dword", "hive_t_dword_be", "hive_t_link",
     "hive_t_multiple_strings", "hive_t_resource_list",
     "hive_t_full_resource_description",
     "hive_t_resource_requirements_list", "hive_t_qword"}

\* A type tag that is none of the enumerated ones.
OtherType == "hive_t_12"

\* start_value that writes default="1" whatever the key is.
start_value_always_default(m, key, type, encoding) ==
    LET m1 == xmlTextWriterStartElement(m, "value")
        m2 == WriteLiteralAttribute(m1, "type", type)
        m3 == IF encoding # ""
              THEN WriteLiteralAttribute(m2, "value_encoding", encoding)
              ELSE m2
        m4 == IF strlen(key) # 0
              THEN safe_print_string_attribute(m3, "key", "key_encoding", key)
              ELSE m3
    IN  WriteLiteralAttribute(m4, "default", "1")

\* encoding is "" where the code passes NULL.
start_value(m, key, type, encoding) ==
    LET m1 == xmlTextWriterStartElement(m, "value")
        m2 == WriteLiteralAttribute(m1, "type", type)
        m3 == IF encoding # ""
              THEN WriteLiteralAttribute(m2, "value_encoding", encoding)
              ELSE m2
    IN  IF strlen(key) # 0
        THEN safe_print_string_attribute(m3, "key", "key_encoding", key)
        ELSE WriteLiteralAttribute(m3, "default", "1")

\* end_value that leaves the value element open.
end_value_missing(m) == m

end_value(m) == xmlTextWriterEndElement(m)

\* abort (): the process ends at once.
Abort(m) == IF m.st = "run" THEN [m EXCEPT !.st = "abort"] ELSE m

\* The value attribute written as base64 over the len bytes at v.
WriteBase64Value(m, v, len) ==
    xmlTextWriterEndAttribute(
      xmlTextWriterWriteBase64(
        xmlTextWriterStartAttribute(m, "value"), v, len))

\* Every value callback ends the same way: the byte runs decide the result.
ByteRunsAndEnd(m, value, q, key, len) ==
    LET m1 == value_byte_runs(m, value, q, key, len)
    IN  [end_value(m1) EXCEPT !.ret = m1.ret]

\* value_string that reports a failure of safe_print_string_attribute to
\* the traversal.
value_string_strict(m, value, t, len, key, str, q) ==
    LET type == CASE t = "hive_t_string" -> "string"
                  [] t = "hive_t_expand_string" -> "expand"
                  [] t = "hive_t_link" -> "link"
                  [] t \in HiveTypes \ {"hive_t_string", "hive_t_expand_string",
                                        "hive_t_link"} -> "abort"
                  [] OTHER -> "unknown"
        m1 == safe_print_string_attribute(
                start_value(m, key, type, ""), "value", "value_encoding", str)
        m2 == ByteRunsAndEnd(m1, value, q, key, len)
    IN  IF type = "abort" THEN Abort(m)
        ELSE IF m1.st = "run" /\ m1.ret = -1 THEN [m2 EXCEPT !.ret = -1]
        ELSE m2

value_string(m, value, t, len, key, str, q) ==
    LET type == CASE t = "hive_t_string" -> "string"
                  [] t = "hive_t_expand_string" -> "expand"
                  [] t = "hive_t_link" -> "link"
                  [] t \in HiveTypes \ {"hive_t_string", "hive_t_expand_string",
                                        "hive_t_link"} -> "abort"
                  [] OTHER -> "unknown"
    IN  IF type = "abort" THEN Abort(m)
        ELSE ByteRunsAndEnd(
               safe_print_string_attribute(
                 start_value(m, key, type, ""), "value", "value_encoding", str),
               value, q, key, len)

\* The loop of value_multiple_strings taking the list from its end.
RECURSIVE WriteStrings_backwards(_, _, _)
WriteStrings_backwards(m, argv, i) ==
    IF i > Len(argv) THEN m
    ELSE WriteStrings_backwards(
           xmlTextWriterEndElement(
             safe_print_string_attribute(
               xmlTextWriterStartElement(m, "string"),
               "value", "value_encoding", argv[Len(argv) + 1 - i])),
           argv, i + 1)

\* The loop of value_multiple_strings over argv[i], argv[i+1], ...
RECURSIVE WriteStrings(_, _, _)
WriteStrings(m, argv, i) ==
    IF i > Len(argv) THEN m
    ELSE WriteStrings(
           xmlTextWriterEndElement(
             safe_print_string_attribute(
               xmlTextWriterStartElement(m, "string"),
               "value", "value_encoding", argv[i])),
           argv, i + 1)

value_multiple_strings(m, value, t, len, key, argv, q) ==
    ByteRunsAndEnd(
      WriteStrings(start_value(m, key, "string-list", ""), argv, 1),
      value, q, key, len)

\* value_string_invalid_utf16 that hands the payload to the classifier, as
\* value_string does.
value_string_invalid_utf16_classified(m, value, t, len, key, str, q) ==
    LET type == CASE t = "hive_t_string" -> "bad-string"
                  [] t = "hive_t_expand_string" -> "bad-expand"
                  [] t = "hive_t_link" -> "bad-link"
                  [] t = "hive_t_multiple_strings" -> "bad-string-list"
                  [] t \in HiveTypes \ {"hive_t_string", "hive_t_expand_string",
                                        "hive_t_link", "hive_t_multiple_strings"}
                       -> "abort"
                  [] OTHER -> "unknown"
    IN  IF type = "abort" THEN Abort(m)
        ELSE ByteRunsAndEnd(
               safe_print_string_attribute(
                 start_value(m, key, type, "base64"),
                 "value", "value_encoding", str),
               value, q, key, len)

value_string_invalid_utf16(m, value, t, len, key, str, q) ==
    LET type == CASE t = "hive_t_string" -> "bad-string"
                  [] t = "hive_t_expand_string" -> "bad-expand"
                  [] t = "hive_t_link" -> "bad-link"
                  [] t = "hive_t_multiple_strings" -> "bad-string-list"
                  [] t \in HiveTypes \ {"hive_t_string", "hive_t_expand_string",
                                        "hive_t_link", "hive_t_multiple_strings"}
                       -> "abort"
                  [] OTHER -> "unknown"
    IN  IF type = "abort" THEN Abort(m)
        ELSE ByteRunsAndEnd(
               WriteBase64Value(start_value(m, key, type, "base64"), str, len),
               value, q, key, len)

value_dword(m, value, t, len, key, v, q) ==
    ByteRunsAndEnd(
      xmlTextWriterWriteFormatAttribute(
        start_value(m, key, "int32", ""), "value", v),
      value, q, key, len)

value_qword(m, value, t, len, key, v, q) ==
    ByteRunsAndEnd(
      xmlTextWriterWriteFormatAttribute(
        start_value(m, key, "int64", ""), "value", v),
      value, q, key, len)

value_binary(m, value, t, len, key, v, q) ==
    ByteRunsAndEnd(
      WriteBase64Value(start_value(m, key, "binary", "base64"), v, len),
      value, q, key, len)

\* value_none that records the byte runs of an empty payload too.
value_none_always_runs(m, value, t, len, key, v, q) ==
    LET m1 == start_value(m, key, "none", "base64")
    IN  ByteRunsAndEnd(IF len > 0 THEN WriteBase64Value(m1, v, len) ELSE m1,
                       value, q, key, len)

value_none(m, value, t, len, key, v, q) ==
    LET m1 == start_value(m, key, "none", "base64")
    IN  IF len > 0
        THEN ByteRunsAndEnd(WriteBase64Value(m1, v, len), value, q, key, len)
        ELSE [end_value(m1) EXCEPT !.ret = 0]

\* value_other with the tags of two resource types exchanged.
value_other_swapped(m, value, t, len, key, v, q) ==
    LET type == CASE t = "hive_t_resource_list" -> "resource-list"
                  [] t = "hive_t_full_resource_description"
                       -> "resource-requirements"
                  [] t = "hive_t_resource_requirements_list"
                       -> "resource-description"
                  [] t \in HiveTypes \ {"hive_t_resource_list",
                                        "hive_t_full_resource_description",
                                        "hive_t_resource_requirements_list"}
                       -> "abort"
                  [] OTHER -> "unknown"
        m1 == start_value(m, key, type, "base64")
    IN  IF type = "abort" THEN Abort(m)
        ELSE IF len > 0
        THEN ByteRunsAndEnd(WriteBase64Value(m1, v, len), value, q, key, len)
        ELSE [end_value(m1) EXCEPT !.ret = 0]

value_other(m, value, t, len, key, v, q) ==
    LET type == CASE t = "hive_t_resource_list" -> "resource-list"
                  [] t = "hive_t_full_resource_description"
                       -> "resource-description"
                  [] t = "hive_t_resource_requirements_list"
                       -> "resource-requirements"
                  [] t \in HiveTypes \ {"hive_t_resource_list",
                                        "hive_t_full_resource_description",
                                        "hive_t_resource_requirements_list"}
                       -> "abort"
                  [] OTHER -> "unknown"
        m1 == start_value(m, key, type, "base64")
    IN  IF type = "abort" THEN Abort(m)
        ELSE IF len > 0
        THEN ByteRunsAndEnd(WriteBase64Value(m1, v, len), value, q, key, len)
        ELSE [end_value(m1) EXCEPT !.ret = 0]

---------------------------------------------------------------------------
(* The inputs of a run.                                                    *)

Keys == {<<>>, <<65>>, <<1>>}
Names == {<<65>>, <<65, 1>>, <<>>}
Strs == {<<>>, <<65>>, <<65, 1>>, <<200>>}
Items == {<<65>>, <<1>>}
Seeds == {<<65>>, <<1, 0, 200>>}
Ints == {-1, 0, 305}
TicksSeen == {-1, 0, 1}
LibErrnos == {0, 25}

\* The len bytes of a payload that begins with seed and goes on with NULs.
Payload(seed, len) == [i \in 1..len |-> IF i <= Len(seed) THEN seed[i] ELSE 0]

RECURSIVE Lists(_)
Lists(n) ==
    IF n = 0 THEN {<<>>}
    ELSE Lists(n - 1) \cup {Append(l, x) : l \in Lists(n - 1), x \in Items}

NoCall ==
    [op |-> "", returned |-> FALSE, ret |-> 0, node |-> 0, value |-> 0,
     t |-> "", len |-> 0, key |-> <<>>, str |-> <<>>, argv |-> <<>>, v |-> 0,
     ticks |-> 0, tenv |-> "ok", q |-> "ok", lib |-> 0, res |-> ""]

ValueOps ==
    {"value_string", "value_multiple_strings", "value_string_invalid_utf16",
     "value_dword", "value_qword", "value_binary", "value_none", "value_other"}

---------------------------------------------------------------------------
(* main() up to the traversal.                                             *)

\* The machine m after an operation becomes the state; a callback that
\* returned leaves its result for the dispatcher, a process that ended
\* leaves only how it ended.
Finish(m, c, after) ==
    /\ stack' = m.stack
    /\ out' = m.out
    /\ errno' = m.errno
    /\ roots' = m.roots
    /\ IF m.st = "run"
       THEN /\ call' = [c EXCEPT !.returned = TRUE, !.ret = m.ret]
            /\ pc' = pc
            /\ visit' = after
       ELSE /\ call' = [NoCall EXCEPT !.op = c.op, !.t = c.t]
            /\ pc' = m.st
            /\ visit' = visit

\* hivex_open, xmlNewTextWriterFilename, the document start, <hive>, and
\* the hive's own mtime.
MainStart ==
    /\ pc = "start"
    /\ \E setup \in {"ok", "hivex_open", "xmlNewTextWriterFilename"},
          wfail \in 0..MaxWrites, hive_mtime \in TicksSeen, tenv \in TimeEnvs :
         LET m0 == Machine(wfail, 0)
             m1 == XML_CHECK(m0, TRUE, m0)      \* xmlTextWriterStartDocument
             m2 == xmlTextWriterStartElement(m1, "hive")
             m3 == WriteMtime(m2, hive_mtime, tenv)
             c  == [NoCall EXCEPT !.op = "main", !.ticks = hive_mtime,
                                  !.tenv = tenv]
         IN  IF setup # "ok"
             THEN /\ pc' = "exit_failure"
                  /\ call' = [NoCall EXCEPT !.op = "main"]
                  /\ UNCHANGED <<stack, out, errno, roots, visit>>
             ELSE /\ stack' = m3.stack
                  /\ out' = m3.out
                  /\ errno' = m3.errno
                  /\ roots' = roots
                  /\ visit' = visit
                  /\ call' = IF m3.st = "run" THEN c
                             ELSE [NoCall EXCEPT !.op = "main"]
                  /\ pc' = IF m3.st = "run" THEN "visit" ELSE m3.st
    /\ UNCHANGED <<path, seen, locale>>

---------------------------------------------------------------------------
(* hivex_visit: the depth-first walk that calls the visitor.               *)

CanCall == pc = "visit" /\ visit = "idle"

\* node_start for the root, or for a child of the innermost open node.
NodeStart ==
    /\ CanCall
    /\ \/ path = <<>> /\ seen.nodes = 0
       \/ path # <<>> /\ Len(path) < MaxDepth /\ seen.nodes < MaxNodes
    /\ \E name \in Names, last_modified \in TicksSeen, tenv \in TimeEnvs,
          q \in {"ok", "q1"}, lib \in LibErrnos, wfail \in 0..MaxWrites :
         LET node == hivex_root + 256 * seen.nodes
             c == [NoCall EXCEPT !.op = "node_start", !.node = node,
                                 !.str = name, !.ticks = last_modified,
                                 !.tenv = tenv, !.q = q, !.lib = lib]
         IN  /\ Finish(node_start(Machine(wfail, lib), node, name,
                                  last_modified, tenv, q), c, "called")
             /\ path' = Append(IF path = <<>> THEN path
                                ELSE [path EXCEPT ![Len(path)].kids = TRUE],
                               [node |-> node, kids |-> FALSE])
             /\ seen' = [seen EXCEPT !.nodes = @ + 1]
    /\ UNCHANGED locale

NodeEnd ==
    /\ CanCall
    /\ path # <<>>
    /\ \E wfail \in 0..MaxWrites :
         LET c == [NoCall EXCEPT !.op = "node_end",
                                 !.node = path[Len(path)].node]
         IN  Finish(node_end(Machine(wfail, 0)), c, "called")
    /\ path' = SubSeq(path, 1, Len(path) - 1)
    /\ UNCHANGED <<seen, locale>>

\* The values of a node are visited before its children.
CanCallValue ==
    /\ CanCall
    /\ path # <<>>
    /\ ~path[Len(path)].kids
    /\ seen.values < MaxValues

ValueHandle == path[Len(path)].node + 32 * (seen.values + 1)

ValueFrame == /\ seen' = [seen EXCEPT !.values = @ + 1]
              /\ UNCHANGED <<path, locale>>

ValueCall(op, t, len, key, q, lib) ==
    [NoCall EXCEPT !.op = op, !.node = path[Len(path)].node,
                   !.value = ValueHandle, !.t = t, !.len = len, !.key = key,
                   !.q = q, !.lib = lib]

ValueString ==
    /\ CanCallValue
    /\ \E t \in {"hive_t_string", "hive_t_expand_string", "hive_t_link"},
          len \in 0..MaxPayload, key \in Keys, str \in Strs,
          q \in Queries, lib \in LibErrnos, wfail \in 0..MaxWrites :
         Finish(value_string(Machine(wfail, lib), ValueHandle, t, len, key, str, q),
                [ValueCall("value_string", t, len, key, q, lib)
                   EXCEPT !.str = str], "called")
    /\ ValueFrame

ValueMultipleStrings ==
    /\ CanCallValue
    /\ \E t \in {"hive_t_multiple_strings"},
          len \in 0..MaxPayload, key \in Keys, argv \in Lists(MaxItems),
          q \in Queries, lib \in LibErrnos, wfail \in 0..MaxWrites :
         Finish(value_multiple_strings(Machine(wfail, lib), ValueHandle, t, len,
                                       key, argv, q),
                [ValueCall("value_multiple_strings", t, len, key, q, lib)
                   EXCEPT !.argv = argv], "called")
    /\ ValueFrame

ValueStringInvalidUtf16 ==
    /\ CanCallValue
    /\ \E t \in {"hive_t_string", "hive_t_expand_string", "hive_t_link",
                  "hive_t_multiple_strings"},
          len \in 0..MaxPayload, key \in Keys, seed \in Seeds,
          q \in Queries, lib \in LibErrnos, wfail \in 0..MaxWrites :
         Finish(value_string_invalid_utf16(Machine(wfail, lib), ValueHandle, t,
                                           len, key, Payload(seed, len), q),
                [ValueCall("value_string_invalid_utf16", t, len, key, q, lib)
                   EXCEPT !.str = Payload(seed, len)], "called")
    /\ ValueFrame

\* A 32-bit integer has a payload of 4 bytes.
ValueDword ==
    /\ CanCallValue
    /\ \E t \in {"hive_t_dword", "hive_t_dword_be"}, key \in Keys, v \in Ints,
          q \in Queries, lib \in LibErrnos, wfail \in 0..MaxWrites :
         Finish(value_dword(Machine(wfail, lib), ValueHandle, t, 4, key, v, q),
                [ValueCall("value_dword", t, 4, key, q, lib) EXCEPT !.v = v],
                "called")
    /\ ValueFrame

\* A 64-bit integer has a payload of 8 bytes.
ValueQword ==
    /\ CanCallValue
    /\ \E t \in {"hive_t_qword"}, key \in Keys, v \in Ints,
          q \in Queries, lib \in LibErrnos, wfail \in 0..MaxWrites :
         Finish(value_qword(Machine(wfail, lib), ValueHandle, t, 8, key, v, q),
                [ValueCall("value_qword", t, 8, key, q, lib) EXCEPT !.v = v],
                "called")
    /\ ValueFrame

ValueBinary ==
    /\ CanCallValue
    /\ \E t \in {"hive_t_binary"},
          len \in 0..MaxPayload, key \in Keys, seed \in Seeds,
          q \in Queries, lib \in LibErrnos, wfail \in 0..MaxWrites :
         Finish(value_binary(Machine(wfail, lib), ValueHandle, t, len, key,
                             Payload(seed, len), q),
                [ValueCall("value_binary", t, len, key, q, lib)
                   EXCEPT !.str = Payload(seed, len)], "called")
    /\ ValueFrame

ValueNone ==
    /\ CanCallValue
    /\ \E t \in {"hive_t_none"},
          len \in 0..MaxPayload, key \in Keys, seed \in Seeds,
          q \in Queries, lib \in LibErrnos, wfail \in 0..MaxWrites :
         Finish(value_none(Machine(wfail, lib), ValueHandle, t, len, key,
                           Payload(seed, len), q),
                [ValueCall("value_none", t, len, key, q, lib)
                   EXCEPT !.str = Payload(seed, len)], "called")
    /\ ValueFrame

ValueOther ==
    /\ CanCallValue
    /\ \E t \in {"hive_t_resource_list", "hive_t_full_resource_description",
                  "hive_t_resource_requirements_list", OtherType},
          len \in 0..MaxPayload, key \in Keys, seed \in Seeds,
          q \in Queries, lib \in LibErrnos, wfail \in 0..MaxWrites :
         Finish(value_other(Machine(wfail, lib), ValueHandle, t, len, key,
                            Payload(seed, len), q),
                [ValueCall("value_other", t, len, key, q, lib)
                   EXCEPT !.str = Payload(seed, len)], "called")
    /\ ValueFrame

\* hivex_visit takes the callback's result: -1 ends the walk with -1, the
\* end of the root node ends it with 0, anything else lets it go on.
VisitNext ==
    /\ pc = "visit"
    /\ visit = "called"
    /\ visit' = IF call.ret = -1 THEN "failed"
                ELSE IF path = <<>> THEN "ok"
                ELSE "idle"
    /\ call' = [NoCall EXCEPT !.op = "hivex_visit", !.ret = call.ret]
    /\ out' = <<>>
    /\ UNCHANGED <<pc, stack, errno, path, seen, roots, locale>>

---------------------------------------------------------------------------
(* main() after the traversal.                                             *)

\* main() that does not look at what hivex_visit returned.
MainFinish_ignoring_visit ==
    /\ pc = "visit"
    /\ visit \in {"ok", "failed"}
    /\ \E closed \in BOOLEAN, wfail \in 0..MaxWrites :
         LET m0 == Machine(wfail, 0)
             m1 == xmlTextWriterEndDocument(xmlTextWriterEndElement(m0))
         IN  IF ~closed
             THEN /\ pc' = "exit_failure"
                  /\ UNCHANGED <<stack, out, errno>>
             ELSE /\ pc' = IF m1.st = "run" THEN "exit_success" ELSE m1.st
                  /\ stack' = m1.stack
                  /\ out' = m1.out
                  /\ errno' = m1.errno
    /\ call' = [NoCall EXCEPT !.op = "main"]
    /\ UNCHANGED <<path, seen, visit, roots, locale>>

MainFinish ==
    /\ pc = "visit"
    /\ visit \in {"ok", "failed"}
    /\ \E closed \in BOOLEAN, wfail \in 0..MaxWrites :
         LET m0 == Machine(wfail, 0)
             m1 == xmlTextWriterEndDocument(xmlTextWriterEndElement(m0))
         IN  IF visit = "failed" \/ ~closed
             THEN /\ pc' = "exit_failure"
                  /\ UNCHANGED <<stack, out, errno>>
             ELSE /\ pc' = IF m1.st = "run" THEN "exit_success" ELSE m1.st
                  /\ stack' = m1.stack
                  /\ out' = m1.out
                  /\ errno' = m1.errno
    /\ call' = [NoCall EXCEPT !.op = "main"]
    /\ UNCHANGED <<path, seen, visit, roots, locale>>

---------------------------------------------------------------------------

Init ==
    /\ pc = "start"
    /\ stack = <<>>
    /\ out = <<>>
    /\ errno = 0
    /\ call = NoCall
    /\ path = <<>>
    /\ seen = [nodes |-> 0, values |-> 0]
    /\ visit = "idle"
    /\ roots = 0
    /\ locale \in BOOLEAN

Next ==
    \/ MainStart
    \/ NodeStart
    \/ ValueString
    \/ ValueMultipleStrings
    \/ ValueStringInvalidUtf16
    \/ ValueDword
    \/ ValueQword
    \/ ValueBinary
    \/ ValueNone
    \/ ValueOther
    \/ NodeEnd
    \/ VisitNext
    \/ MainFinish

Spec == Init /\ [][Next]_vars

---------------------------------------------------------------------------
(* The classifier and the attribute writer on their own: every buffer of   *)
(* at most MaxLen bytes is written as the name attribute of an open node   *)
(* element.                                                                *)

InitStr ==
    /\ pc = "classify"
    /\ stack = <<"hive", "node">>
    /\ out = <<>>
    /\ errno = 0
    /\ \E data \in Bufs(MaxLen) : call = [NoCall EXCEPT !.op = "input", !.str = data]
    /\ path = <<>>
    /\ seen = [nodes |-> 0, values |-> 0]
    /\ visit = "idle"
    /\ roots = 0
    /\ locale \in BOOLEAN

SafePrint ==
    /\ pc = "classify"
    /\ \E wfail \in 0..MaxWrites :
         LET m == safe_print_string_attribute(Machine(wfail, 0), "name",
                                             "name_encoding", call.str)
         IN  /\ pc' = IF m.st = "run" THEN "classified" ELSE m.st
             /\ out' = m.out
             /\ call' = [call EXCEPT !.op = "safe_print_string_attribute",
                                     !.returned = (m.st = "run"),
                                     !.ret = m.ret,
                                     !.res = encoding_recommendation(call.str)]
    /\ UNCHANGED <<stack, errno, path, seen, visit, roots, locale>>

NextStr == SafePrint

SpecStr == InitStr /\ [][NextStr]_vars

---------------------------------------------------------------------------
(* The timestamp converter on its own: every tick count from -MaxTick to   *)
(* MaxTick, with every outcome of the library calls it makes.              *)

InitTime ==
    /\ pc = "convert"
    /\ stack = <<"hive">>
    /\ out = <<>>
    /\ errno = 0
    /\ \E t \in (0 - MaxTick)..MaxTick, tenv \in TimeEnvs :
         call = [NoCall EXCEPT !.op = "input", !.ticks = t, !.tenv = tenv]
    /\ path = <<>>
    /\ seen = [nodes |-> 0, values |-> 0]
    /\ visit = "idle"
    /\ roots = 0
    /\ locale \in BOOLEAN

Convert ==
    /\ pc = "convert"
    /\ LET m == filetime_to_8601(Machine(0, 0), call.ticks, call.tenv)
       IN  /\ pc' = IF m.st = "run" THEN "converted" ELSE m.st
           /\ call' = [call EXCEPT !.op = "filetime_to_8601",
                                   !.returned = (m.st = "run"),
                                   !.res = m.timebuf]
           /\ errno' = m.errno
    /\ UNCHANGED <<stack, out, path, seen, visit, roots, locale>>

NextTime == Convert

SpecTime == InitTime /\ [][NextTime]_vars

---------------------------------------------------------------------------
(* The callbacks on their own: each is called once, inside an open node    *)
(* element, with every argument its C prototype admits.  hivex_visit       *)
(* promises more than the prototypes do (the type tag fits the callback,   *)
(* no pointer is NULL); here nothing is promised, so that what a callback  *)
(* does with a tag or a pointer it does not expect can be observed.        *)

\* Every value of hive_type: the enumerated ones and one that is not.
AllTypes == HiveTypes \cup {OtherType}

InitCall ==
    /\ pc = "call"
    /\ stack = <<"hive", "node">>
    /\ out = <<>>
    /\ errno = 0
    /\ call = NoCall
    /\ path = <<[node |-> hivex_root, kids |-> FALSE]>>
    /\ seen = [nodes |-> 1, values |-> 0]
    /\ visit = "idle"
    /\ roots = 1
    /\ locale \in BOOLEAN

CanCallAny == pc = "call" /\ visit = "idle"

CallFrame == UNCHANGED <<path, seen, locale>>

CallNodeStart ==
    /\ CanCallAny
    /\ \E node \in {hivex_root, hivex_root + 256},
          name \in Names \cup {NULLPTR}, last_modified \in TicksSeen,
          tenv \in TimeEnvs, q \in {"ok", "q1"}, lib \in LibErrnos,
          wfail \in 0..MaxWrites :
         Finish(node_start(Machine(wfail, lib), node, name, last_modified,
                           tenv, q),
                [NoCall EXCEPT !.op = "node_start", !.node = node,
                               !.str = name, !.ticks = last_modified,
                               !.tenv = tenv, !.q = q, !.lib = lib],
                "called")
    /\ CallFrame

CallValueString ==
    /\ CanCallAny
    /\ \E t \in AllTypes, len \in 0..MaxPayload, key \in Keys,
          str \in Strs \cup {NULLPTR},
          q \in Queries, lib \in LibErrnos, wfail \in 0..MaxWrites :
         Finish(value_string(Machine(wfail, lib), ValueHandle, t, len, key, str, q),
                [ValueCall("value_string", t, len, key, q, lib)
                   EXCEPT !.str = str], "called")
    /\ CallFrame

CallValueMultipleStrings ==
    /\ CanCallAny
    /\ \E t \in AllTypes, len \in 0..MaxPayload, key \in Keys,
          argv \in Lists(MaxItems),
          q \in Queries, lib \in LibErrnos, wfail \in 0..MaxWrites :
         Finish(value_multiple_strings(Machine(wfail, lib), ValueHandle, t, len,
                                       key, argv, q),
                [ValueCall("value_multiple_strings", t, len, key, q, lib)
                   EXCEPT !.argv = argv], "called")
    /\ CallFrame

CallValueStringInvalidUtf16 ==
    /\ CanCallAny
    /\ \E t \in AllTypes, len \in 0..MaxPayload, key \in Keys, seed \in Seeds,
          q \in Queries, lib \in LibErrnos, wfail \in 0..MaxWrites :
         Finish(value_string_invalid_utf16(Machine(wfail, lib), ValueHandle, t,
                                           len, key, Payload(seed, len), q),
                [ValueCall("value_string_invalid_utf16", t, len, key, q, lib)
                   EXCEPT !.str = Payload(seed, len)], "called")
    /\ CallFrame

CallValueDword ==
    /\ CanCallAny
    /\ \E t \in AllTypes, key \in Keys, v \in Ints,
          q \in Queries, lib \in LibErrnos, wfail \in 0..MaxWrites :
         Finish(value_dword(Machine(wfail, lib), ValueHandle, t, 4, key, v, q),
                [ValueCall("value_dword", t, 4, key, q, lib) EXCEPT !.v = v],
                "called")
    /\ CallFrame

CallValueQword ==
    /\ CanCallAny
    /\ \E t \in AllTypes, key \in Keys, v \in Ints,
          q \in Queries, lib \in LibErrnos, wfail \in 0..MaxWrites :
         Finish(value_qword(Machine(wfail, lib), ValueHandle, t, 8, key, v, q),
                [ValueCall("value_qword", t, 8, key, q, lib) EXCEPT !.v = v],
                "called")
    /\ CallFrame

CallValueBinary ==
    /\ CanCallAny
    /\ \E t \in AllTypes, len \in 0..MaxPayload, key \in Keys, seed \in Seeds,
          q \in Queries, lib \in LibErrnos, wfail \in 0..MaxWrites :
         Finish(value_binary(Machine(wfail, lib), ValueHandle, t, len, key,
                             Payload(seed, len), q),
                [ValueCall("value_binary", t, len, key, q, lib)
                   EXCEPT !.str = Payload(seed, len)], "called")
    /\ CallFrame

CallValueNone ==
    /\ CanCallAny
    /\ \E t \in AllTypes, len \in 0..MaxPayload, key \in Keys, seed \in Seeds,
          q \in Queries, lib \in LibErrnos, wfail \in 0..MaxWrites :
         Finish(value_none(Machine(wfail, lib), ValueHandle, t, len, key,
                           Payload(seed, len), q),
                [ValueCall("value_none", t, len, key, q, lib)
                   EXCEPT !.str = Payload(seed, len)], "called")
    /\ CallFrame

CallValueOther ==
    /\ CanCallAny
    /\ \E t \in AllTypes, len \in 0..MaxPayload, key \in Keys, seed \in Seeds,
          q \in Queries, lib \in LibErrnos, wfail \in 0..MaxWrites :
         Finish(value_other(Machine(wfail, lib), ValueHandle, t, len, key,
                            Payload(seed, len), q),
                [ValueCall("value_other", t, len, key, q, lib)
                   EXCEPT !.str = Payload(seed, len)], "called")
    /\ CallFrame

NextCall ==
    \/ CallNodeStart
    \/ CallValueString
    \/ CallValueMultipleStrings
    \/ CallValueStringInvalidUtf16
    \/ CallValueDword
    \/ CallValueQword
    \/ CallValueBinary
    \/ CallValueNone
    \/ CallValueOther

SpecCall == InitCall /\ [][NextCall]_vars

---------------------------------------------------------------------------
(* The byte-run recorder on its own: node_byte_runs or value_byte_runs is  *)
(* called once inside an open node or value element, with every outcome of *)
(* the queries and of the writer.                                          *)

InitRuns ==
    /\ pc = "runs"
    /\ stack \in {<<"hive", "node">>, <<"hive", "node", "value">>}
    /\ out = <<>>
    /\ errno = 0
    /\ call = NoCall
    /\ path = <<[node |-> hivex_root, kids |-> FALSE]>>
    /\ seen = [nodes |-> 1, values |-> 0]
    /\ visit = "idle"
    /\ roots = 1
    /\ locale \in BOOLEAN

NodeByteRuns ==
    /\ pc = "runs" /\ visit = "idle"
    /\ stack = <<"hive", "node">>
    /\ \E node \in {hivex_root, hivex_root + 256}, name \in Names,
          q \in {"ok", "q1"}, lib \in LibErrnos, wfail \in 0..MaxWrites :
         Finish(node_byte_runs(Machine(wfail, lib), node, q, name),
                [NoCall EXCEPT !.op = "node_byte_runs", !.node = node,
                               !.str = name, !.q = q, !.lib = lib],
                "called")
    /\ CallFrame

ValueByteRuns ==
    /\ pc = "runs" /\ visit = "idle"
    /\ stack = <<"hive", "node", "value">>
    /\ \E len \in 0..MaxPayload, key \in Keys,
          q \in Queries, lib \in LibErrnos, wfail \in 0..MaxWrites :
         Finish(value_byte_runs(Machine(wfail, lib), ValueHandle, q, key, len),
                ValueCall("value_byte_runs", "", len, key, q, lib),
                "called")
    /\ CallFrame

NextRuns == NodeByteRuns \/ ValueByteRuns

SpecRuns == InitRuns /\ [][NextRuns]_vars

---------------------------------------------------------------------------
(* Reading the document back: what a consumer of the XML sees.             *)

B64Val(c) ==
    IF c >= 65 /\ c <= 90 THEN c - 65
    ELSE IF c >= 97 /\ c <= 122 THEN c - 71
    ELSE IF c >= 48 /\ c <= 57 THEN c + 4
    ELSE IF c = 43 THEN 62 ELSE 63

RECURSIVE Base64Decode(_)
Base64Decode(s) ==
    IF Len(s) < 4 THEN <<>>
    ELSE LET a == B64Val(s[1])
             b == B64Val(s[2])
             c == B64Val(s[3])
             d == B64Val(s[4])
             rest == Base64Decode(SubSeq(s, 5, Len(s)))
         IN  IF s[3] = 61 THEN <<a * 4 + b \div 16>>
             ELSE IF s[4] = 61
                  THEN <<a * 4 + b \div 16, (b % 16) * 16 + c \div 4>>
             ELSE <<a * 4 + b \div 16, (b % 16) * 16 + c \div 4,
                    (c % 4) * 64 + d>> \o rest

RECURSIVE ParseNat(_)
ParseNat(s) ==
    IF s = <<>> THEN 0
    ELSE 10 * ParseNat(SubSeq(s, 1, Len(s) - 1)) + (s[Len(s)] - 48)

ParseD(s) ==
    IF s # <<>> /\ s[1] = 45 THEN 0 - ParseNat(Tail(s)) ELSE ParseNat(s)

StartsOf(tag) == {i \in 1..Len(out) : out[i].k = "start" /\ out[i].tag = tag}

\* The attributes of the element started at token s: the attr tokens that
\* follow it without interruption.
AttrsOf(s) ==
    {i \in (s + 1)..Len(out) : \A j \in (s + 1)..i : out[j].k = "attr"}

AttrNamed(s, name) == {i \in AttrsOf(s) : out[i].name = name}

HasAttr(s, name) == AttrNamed(s, name) # {}

\* Number of elements open after token i, counted from the start of out.
DepthAfter(i) ==
    Cardinality({j \in 1..i : out[j].k = "start"})
      - Cardinality({j \in 1..i : out[j].k = "end"})

\* out is one whole element: opened by its first token, closed by its last,
\* and never closed in between.
OneWholeElement(tag) ==
    /\ Len(out) >= 2
    /\ out[1].k = "start" /\ out[1].tag = tag
    /\ out[Len(out)].k = "end" /\ out[Len(out)].tag = tag
    /\ \A i \in 1..(Len(out) - 1) : DepthAfter(i) >= 1
    /\ DepthAfter(Len(out)) = 0

ValueReturned == call.op \in ValueOps /\ call.returned

NodeStartReturned == call.op = "node_start" /\ call.returned

ZeroLengthNoneOrOther ==
    call.op \in {"value_none", "value_other"} /\ call.len = 0

Ended == {"exit_success", "exit_failure", "abort"}

---------------------------------------------------------------------------
(* C1.  The byte runs of a value element.                                  *)

\* C1 as claimed, read on the value elements of callbacks that report
\* success: the element holds two byte_run elements if the payload is
\* longer than 4 bytes and exactly one otherwise.
C1_Original ==
    (ValueReturned /\ call.ret = 0) =>
        Cardinality(StartsOf("byte_run")) = IF call.len > 4 THEN 2 ELSE 1

\* C1 (amended): a value element whose callback returns 0 holds one
\* byte_runs element with two byte_run children if the payload is longer
\* than 4 bytes and with exactly one otherwise, except that value_none and
\* value_other write no byte_runs and no byte_run at all for a payload of
\* length 0; a callback that returns -1 has written no byte_run either.
C1_ByteRuns ==
    ValueReturned =>
        IF call.ret = -1 \/ ZeroLengthNoneOrOther
        THEN StartsOf("byte_runs") = {} /\ StartsOf("byte_run") = {}
        ELSE /\ Cardinality(StartsOf("byte_runs")) = 1
             /\ Cardinality(StartsOf("byte_run")) = IF call.len > 4 THEN 2 ELSE 1

C1_Witness ==
    /\ ValueReturned /\ call.ret = 0 /\ call.len > 4
    /\ Cardinality(StartsOf("byte_run")) = 2

---------------------------------------------------------------------------
(* C2.  The node element written by node_start.                            *)

NodeElementComplete ==
    /\ out # <<>> /\ out[1].k = "start" /\ out[1].tag = "node"
    /\ Cardinality(AttrNamed(1, "name")) = 1
    /\ \A i \in AttrNamed(1, "name") :
          \/ out[i].form = "raw" /\ ~HasAttr(1, "name_encoding")
          \/ out[i].form = "b64" /\ HasAttr(1, "name_encoding")
    /\ Cardinality(StartsOf("byte_runs")) = 1
    /\ Cardinality(StartsOf("byte_run")) = 1
    /\ \A r \in StartsOf("byte_run") :
          /\ \E w \in StartsOf("byte_runs") : w < r
          /\ Cardinality(AttrNamed(r, "file_offset")) = 1
          /\ \A i \in AttrNamed(r, "file_offset") :
                ParseD(out[i].bytes) = call.node
          /\ Cardinality(AttrNamed(r, "len")) = 1
          /\ \A i \in AttrNamed(r, "len") :
                ParseD(out[i].bytes) = 80 + strlen(call.str)

\* C2 as claimed: whenever node_start is invoked and returns, the node
\* element has a name attribute and a byte_runs element holding exactly one
\* byte_run with the node's offset and structure length.
C2_Original == NodeStartReturned => NodeElementComplete

\* C2 (amended): whenever node_start returns 0, the node element has a name
\* attribute (raw, or base64 with name_encoding) and a byte_runs element
\* holding exactly one byte_run whose file_offset is the node's offset and
\* whose len is its structure length; when node_start returns -1 the node
\* element has no byte_runs element.
C2_NodeElement ==
    NodeStartReturned =>
        IF call.ret = 0 THEN NodeElementComplete
        ELSE StartsOf("byte_runs") = {}

C2_Witness ==
    /\ NodeStartReturned /\ call.ret = 0 /\ call.node # hivex_root
    /\ NodeElementComplete

---------------------------------------------------------------------------
(* C3.  default="1" and key on a value element.                            *)

\* C3: a value element has default="1" and neither key nor key_encoding
\* when the key is the empty string, and has a key and no default when the
\* key is not empty; it never has both.
C3_DefaultOrKey ==
    ValueReturned =>
        /\ out # <<>> /\ out[1].k = "start" /\ out[1].tag = "value"
        /\ IF strlen(call.key) = 0
           THEN /\ Cardinality(AttrNamed(1, "default")) = 1
                /\ \A i \in AttrNamed(1, "default") : out[i].lit = "1"
                /\ ~HasAttr(1, "key")
                /\ ~HasAttr(1, "key_encoding")
           ELSE /\ ~HasAttr(1, "default")
                /\ Cardinality(AttrNamed(1, "key")) = 1

C3_Witness ==
    /\ ValueReturned /\ strlen(call.key) = 0
    /\ HasAttr(1, "default")

---------------------------------------------------------------------------
(* C4.  The *_encoding attributes.                                         *)

EncodingMatches(s, content, encoding) ==
    HasAttr(s, encoding) <=>
        \E i \in AttrNamed(s, content) : out[i].form = "b64"

\* C4 as claimed: on every element written, name_encoding, key_encoding
\* and value_encoding are present exactly when the name, key or value
\* attribute of that element is present and base64-encoded.
C4_Original ==
    (ValueReturned \/ NodeStartReturned) =>
        \A s \in StartsOf("node") \cup StartsOf("value") \cup StartsOf("string") :
            /\ EncodingMatches(s, "name", "name_encoding")
            /\ EncodingMatches(s, "key", "key_encoding")
            /\ EncodingMatches(s, "value", "value_encoding")

---------------------------------------------------------------------------
(* C5 and C6.  The classifier, and what safe_print_string_attribute writes *)
(* on its advice.  Checked under SpecStr.                                  *)

Classified == pc = "classified" /\ call.op = "safe_print_string_attribute"

AllPrintable(data) == \A i \in 1..strlen(data) : isprint(data[i])

\* C5 as claimed: for a buffer whose bytes before the first NUL are all
\* printable, the empty string included, encoding_recommendation returns
\* "none" and the text is written raw with no encoding attribute.
C5_Original ==
    (Classified /\ AllPrintable(call.str)) =>
        /\ call.res = "none"
        /\ Len(out) = 1
        /\ out[1].name = "name" /\ out[1].form = "raw"
        /\ out[1].bytes = CStr(call.str)

\* C6: for a buffer with a non-printable byte before its first NUL,
\* encoding_recommendation returns "base64", and the attribute writer
\* writes the encoding attribute and then a content attribute whose base64
\* text decodes to exactly the bytes before the first NUL.
C6_Escaped ==
    (Classified /\ ~AllPrintable(call.str)) =>
        /\ call.res = "base64"
        /\ call.ret = 0
        /\ Len(out) = 2
        /\ out[1].name = "name_encoding" /\ out[1].lit = "base64"
        /\ out[2].name = "name" /\ out[2].form = "b64"
        /\ Base64Decode(out[2].bytes) = CStr(call.str)

C6_Witness ==
    /\ Classified
    /\ strlen(call.str) = 2
    /\ ~isprint(call.str[1]) /\ isprint(call.str[2])
    /\ Len(call.str) > 2
    /\ call.res = "base64"

---------------------------------------------------------------------------
(* C7.  root="1".                                                          *)

\* C7: the node element written by node_start has root="1" exactly when
\* the node is the hive's root, and in the whole document only one node
\* element, the root's, has it.
C7_RootMark ==
    /\ NodeStartReturned =>
          /\ HasAttr(1, "root") <=> (call.node = hivex_root)
          /\ \A i \in AttrNamed(1, "root") : out[i].lit = "1"
    /\ roots <= 1
    /\ (pc = "visit" /\ seen.nodes >= 1) => roots = 1
    /\ pc = "exit_success" => roots = 1

C7_Witness ==
    /\ NodeStartReturned /\ call.node # hivex_root
    /\ ~HasAttr(1, "root")
    /\ roots = 1

---------------------------------------------------------------------------
(* C8.  The timestamp converter.  Checked under SpecTime.                  *)

---------------------------------------------------------------------------
(* C9.  The writer's stack over the traversal.                             *)

OpenNodes == [i \in 1..Len(path) |-> "node"]

\* Between two callbacks the open elements are hive and one node for each
\* node entered and not left; each callback that returned wrote what the
\* claim says it writes.
C9_State ==
    /\ pc = "visit" => stack = <<"hive">> \o OpenNodes
    /\ NodeStartReturned =>
          /\ out[1].k = "start" /\ out[1].tag = "node"
          /\ DepthAfter(Len(out)) = 1
          /\ \A i \in 1..Len(out) : DepthAfter(i) >= 1
          /\ \A i \in 2..Len(out) :
                out[i].k = "start" => out[i].tag \in {"mtime", "byte_runs", "byte_run"}
    /\ ValueReturned => OneWholeElement("value")
    /\ (call.op = "node_end" /\ call.returned) =>
          out = <<Tok("end", "node", "", "", "", <<>>)>>
    /\ (pc = "visit" /\ visit = "ok") => stack = <<"hive">>
    /\ pc = "exit_success" => stack = <<>>

\* What each callback does to the stack.
C9_Step ==
    /\ (call'.op = "node_start" /\ call'.returned) => stack' = Append(stack, "node")
    /\ (call'.op \in ValueOps /\ call'.returned) => stack' = stack
    /\ (call'.op = "node_end" /\ call'.returned) =>
          /\ stack # <<>> /\ stack[Len(stack)] = "node"
          /\ stack' = SubSeq(stack, 1, Len(stack) - 1)
          /\ Len(stack) = 1 + Len(path)

\* C9: over every call sequence of the traversal the writer's stack is
\* well nested: node_start leaves one more open element, a node whose
\* mtime and byte_runs children are closed; a value callback leaves the
\* stack as it found it, its own elements all closed; node_end closes the
\* innermost open node, the one its node_start opened; and only hive is
\* open when the traversal finishes.
C9_WellNested == []C9_State /\ [][call' # call => C9_Step]_vars

C9_Witness ==
    /\ call.op = "node_end" /\ call.returned
    /\ path # <<>>
    /\ seen.values >= 1
    /\ stack = <<"hive", "node">>

---------------------------------------------------------------------------
(* C10.  How a run ends.                                                   *)

FailureReported ==
    \/ pc \in {"exit_failure", "abort"}
    \/ pc = "visit" /\ visit = "failed"
    \/ pc = "visit" /\ visit = "called" /\ call.ret = -1

C10_State ==
    /\ pc = "exit_success" => (stack = <<>> /\ visit = "ok" /\ path = <<>>)

C10_Step ==
    /\ pc \in Ended => UNCHANGED vars
    /\ FailureReported =>
          /\ FailureReported'
          /\ pc' # "exit_success"
          /\ stack' = stack
          /\ \A i \in 1..Len(out') : out'[i].k = "start" => (i <= Len(out) /\ out[i] = out'[i])

\* C10: a run ends either with every element closed, hive included, and a
\* successful exit after a traversal in which no callback failed, or with
\* a failure exit; once a writer call has failed or a callback has
\* returned -1, no further element is opened and the run cannot exit
\* successfully.
C10_Endings == []C10_State /\ [][C10_Step]_vars

C10_Witness ==
    /\ pc = "exit_failure"
    /\ visit = "failed"
    /\ Len(stack) >= 2

---------------------------------------------------------------------------
(* C11.  The type attribute.  Checked under SpecCall, where every callback *)
(* meets every type tag.                                                   *)

Vocabulary ==
    {"string", "expand", "link", "bad-string", "bad-expand", "bad-link",
     "string-list", "bad-string-list", "int32", "int64", "binary", "none",
     "resource-list", "resource-description", "resource-requirements",
     "unknown"}

\* The tag the claim gives for callback op and type tag t.
TypeTagFor(op, t) ==
    CASE op = "value_string" ->
           (CASE t = "hive_t_string" -> "string"
              [] t = "hive_t_expand_string" -> "expand"
              [] t = "hive_t_link" -> "link"
              [] OTHER -> "unknown")
      [] op = "value_string_invalid_utf16" ->
           (CASE t = "hive_t_string" -> "bad-string"
              [] t = "hive_t_expand_string" -> "bad-expand"
              [] t = "hive_t_link" -> "bad-link"
              [] t = "hive_t_multiple_strings" -> "bad-string-list"
              [] OTHER -> "unknown")
      [] op = "value_multiple_strings" -> "string-list"
      [] op = "value_dword" -> "int32"
      [] op = "value_qword" -> "int64"
      [] op = "value_binary" -> "binary"
      [] op = "value_none" -> "none"
      [] op = "value_other" ->
           (CASE t = "hive_t_resource_list" -> "resource-list"
              [] t = "hive_t_full_resource_description" -> "resource-description"
              [] t = "hive_t_resource_requirements_list" -> "resource-requirements"
              [] OTHER -> "unknown")
      [] OTHER -> ""

\* C11: every type attribute written on a value element is one of the 16
\* tags and is the one the callback and the type tag determine; a value
\* element whose callback returns has exactly one type attribute; a type
\* tag outside the enumeration is written as "unknown" by the three
\* callbacks that look at the tag.
C11_TypeTags ==
    /\ \A s \in StartsOf("value") : \A i \in AttrNamed(s, "type") :
          /\ out[i].form = "lit"
          /\ out[i].lit \in Vocabulary
          /\ out[i].lit = TypeTagFor(call.op, call.t)
    /\ ValueReturned =>
          /\ StartsOf("value") = {1}
          /\ Cardinality(AttrNamed(1, "type")) = 1
          /\ Cardinality({i \in 1..Len(out) : out[i].name = "type"}) = 1

C11_Witness ==
    /\ ValueReturned
    /\ call.op = "value_other" /\ call.t = "hive_t_full_resource_description"
    /\ \E i \in AttrNamed(1, "type") : out[i].lit = "resource-description"

---------------------------------------------------------------------------
(* C12.  A type tag the callback does not expect.  Checked under SpecCall. *)

\* The type tags hivex_visit hands to callback op.
ExpectedTypes(op) ==
    CASE op = "value_string" ->
           {"hive_t_string", "hive_t_expand_string", "hive_t_link"}
      [] op = "value_multiple_strings" -> {"hive_t_multiple_strings"}
      [] op = "value_string_invalid_utf16" ->
           {"hive_t_string", "hive_t_expand_string", "hive_t_link",
            "hive_t_multiple_strings"}
      [] op = "value_dword" -> {"hive_t_dword", "hive_t_dword_be"}
      [] op = "value_qword" -> {"hive_t_qword"}
      [] op = "value_binary" -> {"hive_t_binary"}
      [] op = "value_none" -> {"hive_t_none"}
      [] op = "value_other" ->
           {"hive_t_resource_list", "hive_t_full_resource_description",
            "hive_t_resource_requirements_list", OtherType}
      [] OTHER -> {}

\* C12 as claimed: a value callback called with a type tag outside its
\* expected subset aborts before it writes anything, and never returns.
C12_Original ==
    (call.op \in ValueOps /\ call.t \notin ExpectedTypes(call.op)) =>
        (pc = "abort" /\ out = <<>> /\ ~call.returned)

---------------------------------------------------------------------------
(* C13.  A conversion that fails.  Checked under SpecTime.                 *)

\* C13 as claimed: for a non-zero tick count, when a step of the
\* conversion fails (gmtime, malloc or strftime), filetime_to_8601 ends the
\* process with failure and does not return.
C13_Original ==
    (call.op = "filetime_to_8601" /\ call.ticks # 0 /\ call.tenv # "ok") =>
        (pc = "exit_failure" /\ ~call.returned)

---------------------------------------------------------------------------
(* C14.  Text that is not valid UTF-16.  Checked under SpecCall.           *)

BadTextCall ==
    /\ call.op = "value_string_invalid_utf16"
    /\ call.returned
    /\ call.t \in ExpectedTypes("value_string_invalid_utf16")

\* C14: value_string_invalid_utf16, called with one of its four type tags,
\* writes a whole value element with a bad-* type, value_encoding="base64"
\* and one value attribute in base64 that decodes to exactly the len bytes
\* of the payload, whether or not they are printable and whatever follows
\* a NUL among them; it returns -1 only when value_byte_runs does, in which
\* case the element has no byte_runs.
C14_BadText ==
    BadTextCall =>
        /\ OneWholeElement("value")
        /\ \A i \in AttrNamed(1, "type") :
              out[i].lit \in {"bad-string", "bad-expand", "bad-link",
                              "bad-string-list"}
        /\ Cardinality(AttrNamed(1, "value_encoding")) = 1
        /\ \A i \in AttrNamed(1, "value_encoding") : out[i].lit = "base64"
        /\ Cardinality(AttrNamed(1, "value")) = 1
        /\ \A i \in AttrNamed(1, "value") :
              /\ out[i].form = "b64"
              /\ Base64Decode(out[i].bytes) = call.str
        /\ Len(call.str) = call.len
        /\ call.ret \in {0, -1}
        /\ (call.ret = 0) <=> (StartsOf("byte_runs") # {})
        /\ call.ret = -1 => (call.q # "ok" \/ call.lib # 0)

C14_Witness ==
    /\ BadTextCall
    /\ call.len >= 3 /\ call.str[2] = 0 /\ call.str[3] # 0
    /\ call.ret = 0
    /\ \E i \in AttrNamed(1, "value") : Base64Decode(out[i].bytes) = call.str

---------------------------------------------------------------------------
(* C15.  Where the byte_runs element stands in a value element.  Checked   *)
(* under SpecCall.                                                         *)

\* The tokens of the type-specific content of a value element: its value
\* attribute and its string children with their attributes.
ContentTokens ==
    {i \in 1..Len(out) :
        \/ out[i].k = "attr" /\ out[i].name = "value"
        \/ out[i].k \in {"start", "end"} /\ out[i].tag = "string"}

\* The tokens of byte_runs elements.
ByteRunTokens ==
    {i \in 1..Len(out) :
        \/ out[i].k \in {"start", "end"} /\ out[i].tag \in {"byte_runs", "byte_run"}
        \/ out[i].k = "attr" /\ out[i].name \in {"file_offset", "len"}}

\* The byte_runs element is the last child of the value element and comes
\* after everything else in it.
ByteRunsLast ==
    /\ Cardinality(StartsOf("byte_runs")) = 1
    /\ \A b \in StartsOf("byte_runs") :
          /\ b > 1
          /\ \A i \in ContentTokens : i < b
          /\ \A i \in 1..(b - 1) : i \notin ByteRunTokens
          /\ \A i \in b..(Len(out) - 1) : i \in ByteRunTokens
          /\ out[Len(out) - 1].k = "end" /\ out[Len(out) - 1].tag = "byte_runs"
          /\ out[Len(out)].k = "end" /\ out[Len(out)].tag = "value"

NoValueNoByteRuns ==
    /\ ~HasAttr(1, "value")
    /\ ByteRunTokens = {}
    /\ OneWholeElement("value")

\* C15 as claimed: the value element of every value callback that returns
\* has a byte_runs element after its type-specific content, unless the
\* callback is value_none or value_other and the payload is empty, where it
\* has neither a value attribute nor a byte_runs element.
C15_Original ==
    ValueReturned =>
        IF ZeroLengthNoneOrOther THEN NoValueNoByteRuns ELSE ByteRunsLast

\* C15 (amended): the same of every value callback that returns 0; a value
\* callback that returns -1 has closed its value element without any
\* byte_runs element in it.
C15_ByteRunsLast ==
    /\ (ValueReturned /\ call.ret = 0) =>
          IF ZeroLengthNoneOrOther THEN NoValueNoByteRuns ELSE ByteRunsLast
    /\ (ValueReturned /\ call.ret # 0) =>
          /\ call.ret = -1
          /\ ~ZeroLengthNoneOrOther
          /\ ByteRunTokens = {}
          /\ OneWholeElement("value")

C15_Witness ==
    /\ ValueReturned /\ call.ret = 0
    /\ call.op = "value_multiple_strings" /\ Len(call.argv) = 2
    /\ ByteRunsLast
    /\ Cardinality(ContentTokens) = 6

---------------------------------------------------------------------------
(* C16.  safe_print_string_attribute fails.  Checked under SpecCall, where *)
(* node_start is called without a name and value_string without a string:  *)
(* the only callers that can hand it a NULL pointer (start_value has read   *)
(* *key before the call, value_multiple_strings has compared argv[i] with  *)
(* NULL).                                                                  *)

\* The byte-run queries of the call had a reason to fail: a query reported
\* an error, or errno was non-zero when they were made.
ByteRunsMayFail ==
    \/ call.q # "ok"
    \/ call.lib # 0
    \/ call.op = "node_start" /\ call.ticks > 0 /\ call.tenv = "gmtime"

\* C16: when safe_print_string_attribute returns -1 in value_string or in
\* node_start, only the attribute it was to write (and its encoding
\* attribute) is missing: the element has its other attributes, its mtime,
\* its byte_runs and, for a value, its closing tag, and the callback
\* returns what the byte-run recorder returns.
C16_Continues ==
    /\ (call.op = "value_string" /\ call.returned /\ call.str = NULLPTR) =>
          /\ OneWholeElement("value")
          /\ ~HasAttr(1, "value") /\ ~HasAttr(1, "value_encoding")
          /\ Cardinality(AttrNamed(1, "type")) = 1
          /\ HasAttr(1, "default") <=> (strlen(call.key) = 0)
          /\ HasAttr(1, "key") <=> (strlen(call.key) # 0)
          /\ (call.ret = 0) <=> ByteRunsLast
          /\ call.ret # 0 => (call.ret = -1 /\ ByteRunsMayFail)
    /\ (NodeStartReturned /\ call.str = NULLPTR) =>
          /\ out # <<>> /\ out[1].k = "start" /\ out[1].tag = "node"
          /\ ~HasAttr(1, "name") /\ ~HasAttr(1, "name_encoding")
          /\ HasAttr(1, "root") <=> (call.node = hivex_root)
          /\ (StartsOf("mtime") # {}) <=> (call.ticks > 0 /\ call.tenv = "ok")
          /\ (call.ret = 0) <=> (Cardinality(StartsOf("byte_runs")) = 1)
          /\ call.ret # 0 => (call.ret = -1 /\ ByteRunsMayFail)
          /\ stack = <<"hive", "node", "node">>

C16_Witness ==
    /\ call.op = "value_string" /\ call.returned /\ call.str = NULLPTR
    /\ call.ret = 0
    /\ ~HasAttr(1, "value")
    /\ HasAttr(1, "key")
    /\ ByteRunsLast

---------------------------------------------------------------------------
(* C17.  What follows the first NUL.  Checked under SpecStr.               *)

\* C17: the classifier gives the buffer the decision it gives every buffer
\* with the same bytes up to the first NUL, and the attribute written holds
\* those bytes and none of the bytes after the NUL.
C17_NulDelimited ==
    Classified =>
        /\ \A d \in Bufs(MaxLen) :
              CStr(d) = CStr(call.str) => encoding_recommendation(d) = call.res
        /\ \A i \in 1..Len(out) :
              /\ out[i].form = "raw" => out[i].bytes = CStr(call.str)
              /\ out[i].form = "b64" =>
                    Base64Decode(out[i].bytes) = CStr(call.str)
        /\ \E i \in 1..Len(out) : out[i].form \in {"raw", "b64"}

C17_Witness ==
    /\ Classified
    /\ Len(call.str) = 3 /\ isprint(call.str[1]) /\ call.str[2] = 0
    /\ ~isprint(call.str[3])
    /\ call.res = "none"
    /\ out[1].form = "raw" /\ out[1].bytes = <<call.str[1]>>

---------------------------------------------------------------------------
(* C18.  The string children of a multi-string value.  Checked under       *)
(* SpecCall.                                                               *)

\* The place of the string element started at token s among the string
\* elements of out.
StringRank(s) == Cardinality({r \in StartsOf("string") : r <= s})

\* The token that follows the attributes of the element started at s.
AfterAttrs(s) == s + Cardinality(AttrsOf(s)) + 1

\* C18: value_multiple_strings, when it returns, has written one string
\* element per item of the list, in the order of the list, as children of
\* the value element; each is closed right after its attributes, before
\* the next is opened; each has one value attribute that holds the item,
\* raw or in base64 with value_encoding="base64" as the classifier says;
\* and all of them come before the byte_runs element.
C18_StringChildren ==
    (call.op = "value_multiple_strings" /\ call.returned) =>
        /\ OneWholeElement("value")
        /\ Cardinality(StartsOf("string")) = Len(call.argv)
        /\ \A s \in StartsOf("string") :
              LET item == call.argv[StringRank(s)]
              IN  /\ DepthAfter(s) = 2
                  /\ AfterAttrs(s) <= Len(out)
                  /\ out[AfterAttrs(s)].k = "end"
                  /\ out[AfterAttrs(s)].tag = "string"
                  /\ Cardinality(AttrNamed(s, "value")) = 1
                  /\ \A i \in AttrNamed(s, "value") :
                        IF encoding_recommendation(item) = "none"
                        THEN /\ out[i].form = "raw"
                             /\ out[i].bytes = CStr(item)
                             /\ ~HasAttr(s, "value_encoding")
                        ELSE /\ out[i].form = "b64"
                             /\ Base64Decode(out[i].bytes) = CStr(item)
                             /\ \E e \in AttrNamed(s, "value_encoding") :
                                   e < i /\ out[e].lit = "base64"
                  /\ \A b \in StartsOf("byte_runs") : AfterAttrs(s) < b

C18_Witness ==
    /\ call.op = "value_multiple_strings" /\ call.returned
    /\ call.argv = << <<1>>, <<65>> >>
    /\ call.ret = 0
    /\ Cardinality(StartsOf("string")) = 2
    /\ StartsOf("byte_runs") # {}

---------------------------------------------------------------------------
(* C19.  A byte-run recorder writes all of its element or nothing.         *)
(* Checked under SpecRuns.                                                 *)

ByteRunsReturned ==
    call.op \in {"node_byte_runs", "value_byte_runs"} /\ call.returned

\* The element the recorder was called in is still the innermost open one.
SameOpenElement ==
    stack = IF call.op = "node_byte_runs" THEN <<"hive", "node">>
            ELSE <<"hive", "node", "value">>

\* C19: node_byte_runs and value_byte_runs return 0 or -1; on -1 they have
\* written nothing; on 0 they have written one whole byte_runs element
\* whose children are closed byte_run elements: one for a node, one or two
\* for a value; either way the open elements are those of before the call.
C19_AllOrNothing ==
    ByteRunsReturned =>
        /\ call.ret \in {0, -1}
        /\ SameOpenElement
        /\ call.ret = -1 => out = <<>>
        /\ call.ret = 0 =>
              /\ OneWholeElement("byte_runs")
              /\ StartsOf("byte_runs") = {1}
              /\ \A i \in 1..Len(out) : i \in ByteRunTokens
              /\ \A s \in StartsOf("byte_run") :
                    /\ DepthAfter(s) = 2
                    /\ Cardinality(AttrsOf(s)) = 2
                    /\ out[AfterAttrs(s)].k = "end"
                    /\ out[AfterAttrs(s)].tag = "byte_run"
              /\ Cardinality(StartsOf("byte_run")) \in
                    (IF call.op = "node_byte_runs" THEN {1} ELSE {1, 2})

\* The data-cell query of value_byte_runs fails after the first query has
\* succeeded: nothing has been written.
C19_Witness ==
    /\ ByteRunsReturned
    /\ call.op = "value_byte_runs" /\ call.q = "q2" /\ call.lib = 0
    /\ call.ret = -1
    /\ out = <<>>

---------------------------------------------------------------------------
(* C20.  errno left over from before the queries.  Checked under Spec.     *)

\* C20 as claimed: a callback returns -1, which it does only when its
\* byte-run recorder returns -1, only if one of the recorder's own queries
\* reported an error.
C20_Original ==
    ((NodeStartReturned \/ ValueReturned) /\ call.ret = -1) => call.q # "ok"

====
